---- MODULE Spec2Model ----
(***************************************************************************)
(* Model of the KE Top 500 ranking pipeline (scripts/build_ke_top500.py)   *)
(* and of the snapshot rollup (scripts/rollup_top500.py).                  *)
(*                                                                         *)
(* Numbers.  The scripts compute in binary floating point; the model       *)
(* computes the same expressions in exact rational arithmetic, a rational  *)
(* being a reduced pair <<n, d>> with d > 0.  log10(x + 1) is exact for    *)
(* x + 1 a power of ten, and the model draws every count from such values  *)
(* (9, 99, 999, ...), so Log10p1 is the true logarithm on the model's      *)
(* domain and is undefined (TLC stops) outside it.  exp(-d/45) is tabled   *)
(* in thousandths for the ages the model uses.                             *)
(*                                                                         *)
(* Text.  Names and descriptions are sequences of lower-case tokens; a     *)
(* regular expression of the script is the set of tokens it matches.       *)
(***************************************************************************)
EXTENDS Integers, Sequences, FiniteSets, TLC

\* ------------------------------------------------------------------ bounds
\* Longest seed list read from seed_channel_ids.txt.
MaxSeeds == 2
\* Largest --max_new the model passes to discover_channel_ids.
MaxNew == 2
\* Most items one search page carries in the model.
MaxPageItems == 2
\* Most rows of a candidate set in the scoring specification.
MaxRows == 3
\* Most snapshot files in the history directory, and most items per snapshot.
MaxFiles == 2
MaxItems == 2
\* The most video items in a list handed to choose_latest_longform on its own.
MaxVideos == 2

\* -------------------------------------------------------------- rationals
None == "None"

Max2(a, b) == IF a >= b THEN a ELSE b
Min2(a, b) == IF a <= b THEN a ELSE b
Abs(a) == IF a < 0 THEN -a ELSE a

RECURSIVE Gcd(_, _)
Gcd(a, b) == IF b = 0 THEN a ELSE Gcd(b, a % b)

\* The rational n/d (d # 0), reduced, with a positive denominator.
Rat(n, d) ==
    LET s == IF d < 0 THEN -1 ELSE 1
        g == Gcd(Abs(n), Abs(d))
    IN  <<(s * n) \div g, (s * d) \div g>>

RInt(k) == <<k, 1>>
RAdd(a, b) == Rat(a[1] * b[2] + b[1] * a[2], a[2] * b[2])
RSub(a, b) == Rat(a[1] * b[2] - b[1] * a[2], a[2] * b[2])
RMul(a, b) == Rat(a[1] * b[1], a[2] * b[2])
RDiv(a, b) == Rat(a[1] * b[2], a[2] * b[1])
RLt(a, b) == a[1] * b[2] < b[1] * a[2]
RLe(a, b) == a[1] * b[2] <= b[1] * a[2]

\* ------------------------------------------------------ thresholds (script)
MIN_SUBSCRIBERS == 5000
MIN_CHANNEL_VIEWS == 2000000
MIN_LONGFORM_SEC == 660
MAX_VIDEO_AGE_DAYS == 365
MIN_VIDEO_VIEWS == 10000

\* --------------------------------------------------------------- helpers
Range(s) == {s[i] : i \in 1..Len(s)}

RECURSIVE Pow10(_)
Pow10(k) == IF k = 0 THEN 1 ELSE 10 * Pow10(k - 1)

\* log10p1: log10(max(0, x) + 1), on the counts x with x + 1 a power of ten.
Log10p1(x) == RInt(CHOOSE k \in 0..9 : Pow10(k) = Max2(0, x) + 1)

\* exp(-d/45) in thousandths; a row without upload (d = <<>>) has d = 9999.0.
Recency(d) ==
    CASE d = <<>>    -> Rat(0, 1000)
      [] d = <<3>>   -> Rat(936, 1000)
      [] d = <<45>>  -> Rat(368, 1000)
      [] d = <<200>> -> Rat(12, 1000)

\* min(1.0, (uploads_last_90d or 0) / 13.0)
FFreq(u) == IF u >= 13 THEN RInt(1) ELSE Rat(u, 13)

RECURSIVE SeqMin(_), SeqMax(_)
SeqMin(s) ==
    IF Len(s) = 1 THEN s[1]
    ELSE LET m == SeqMin(Tail(s)) IN IF RLe(s[1], m) THEN s[1] ELSE m
SeqMax(s) ==
    IF Len(s) = 1 THEN s[1]
    ELSE LET m == SeqMax(Tail(s)) IN IF RLe(m, s[1]) THEN s[1] ELSE m

\* A mutant of minmax: the normalisation runs from the maximum down.
minmax_inverted(values) ==
    IF values = <<>> THEN <<>>
    ELSE LET lo == SeqMin(values)
             hi == SeqMax(values)
         IN  IF RLe(hi, lo)
             THEN [i \in 1..Len(values) |-> RInt(0)]
             ELSE [i \in 1..Len(values) |-> RDiv(RSub(hi, values[i]), RSub(hi, lo))]

minmax(values) ==
    IF values = <<>> THEN <<>>
    ELSE LET lo == SeqMin(values)
             hi == SeqMax(values)
         IN  IF RLe(hi, lo)
             THEN [i \in 1..Len(values) |-> RInt(0)]
             ELSE [i \in 1..Len(values) |-> RDiv(RSub(values[i], lo), RSub(hi, lo))]

\* The normalised subscriber feature of every row (nh_subs of compute_scores).
NormSubs(rows) == minmax([i \in 1..Len(rows) |-> Log10p1(rows[i].subscribers)])

\* compute_scores: the rows with their composite score set.
compute_scores(rows) ==
    LET n == Len(rows)
        nh_subs   == NormSubs(rows)
        nh_views  == minmax([i \in 1..n |-> Log10p1(rows[i].views_total)])
        nh_videos == minmax([i \in 1..n |-> Log10p1(rows[i].video_count)])
        nh_freq   == minmax([i \in 1..n |-> FFreq(rows[i].uploads_last_90d)])
        nh_rec    == minmax([i \in 1..n |-> Recency(rows[i].last_upload_days)])
        sc(i) == RAdd(RAdd(RAdd(RMul(Rat(25, 100), nh_subs[i]),
                                RMul(Rat(25, 100), nh_views[i])),
                           RAdd(RMul(Rat(10, 100), nh_videos[i]),
                                RMul(Rat(20, 100), nh_freq[i]))),
                      RMul(Rat(20, 100), nh_rec[i]))
    IN  [i \in 1..n |-> [rows[i] EXCEPT !.score = sc(i)]]

\* ------------------------------------------------- batching (scaled down)
\* Each stands for the script's constant of the same name, scaled so that the
\* model's small inputs still cross it: 15 queries, 100 results per query,
\* batches of 50, 250 uploads, pages of 50, 500 output rows.
NUM_DISCOVERY_QUERIES == 2
MAX_DISCOVER_RESULTS_PER_QUERY == 3
MAX_CHANNEL_BATCH == 2
MAX_VIDEO_BATCH == 2
UPLOADS_FETCH_CAP == 3
PLAYLIST_PAGE_SIZE == 2
TOP_N == 2

\* ------------------------------------------------------------ text filters
SHORTS_RE == {"shorts", "short", "#shorts"}
SPORTS_RE == {"highlights", "highlight", "ft", "goal", "matchday", "2-1"}
CLUBS_RE == {"sportscast", "arsenal", "liverpool", "chelsea"}
SENSATIONAL_RE == {"exposed", "exposing", "confronting", "catching"}
MIX_RE == {"mixtape"}
TAG_BLOCKS == {"#sportshighlights", "#sports", "#highlights", "#shorts", "#short",
               "sportshighlights", "sports", "highlights", "shorts", "short"}
KENYA_HINTS_RE == {"kenya", "kenyan", "nairobi", "nairoby", "mombasa", "kisumu", "ke"}
PODCAST_INTERVIEW_RE == {"podcast", "interview", "conversation", "panel"}
\* The tokens that hold the substring "podcast".
HasPodcast == {"podcast", "podcasts"}

Search(re, txt) == \E i \in 1..Len(txt) : txt[i] \in re

\* str.upper() on the region codes of the model.
Upper(s) == CASE s = "ke" -> "KE" [] s = "us" -> "US" [] OTHER -> s

\* to_int: a missing or unparseable count is 0.  An optional number is <<>>
\* (None) or <<x>>.
to_int(x) == IF x = <<>> THEN 0 ELSE x[1]

looks_blocked(title, desc, tags) ==
    LET txt == title \o desc
    IN  \/ Search(SHORTS_RE, txt) \/ Search(SPORTS_RE, txt) \/ Search(CLUBS_RE, txt)
        \/ Search(SENSATIONAL_RE, txt) \/ Search(MIX_RE, txt)
        \/ \E i \in 1..Len(tags) : tags[i] \in TAG_BLOCKS

classify_channel(name, desc) ==
    LET txt == name \o desc
    IN  IF Search(HasPodcast, txt) THEN "podcast"
        ELSE IF Search(PODCAST_INTERVIEW_RE, txt) THEN "interview"
        ELSE "other"

is_kenyan(ch, allow_ids, cid) ==
    \/ Upper(ch.country) = "KE"
    \/ Search(KENYA_HINTS_RE, ch.title \o ch.description)
    \/ cid \in allow_ids

\* ------------------------------------------------------- the platform's data
\* What channels().list answers for one id; an id outside ChannelIds resolves
\* to no item.
ChannelIds == {"ke_pod", "derby", "us_pod", "ke_vlog", "small"}

ChannelItem(cid) ==
    CASE cid = "ke_pod" ->
           [id |-> cid, title |-> <<"kenyan", "podcast">>, description |-> <<>>,
            country |-> "ke", subscriberCount |-> <<9999>>, viewCount |-> <<99999999>>,
            videoCount |-> <<99>>, uploads |-> "UUke_pod"]
      [] cid = "derby" ->
           [id |-> cid, title |-> <<"derby", "day", "highlights", "2-1", "ft">>,
            description |-> <<"nairobi", "podcast">>,
            country |-> "", subscriberCount |-> <<999999>>, viewCount |-> <<99999999>>,
            videoCount |-> <<999>>, uploads |-> "UUderby"]
      [] cid = "us_pod" ->
           [id |-> cid, title |-> <<"interview">>, description |-> <<>>,
            country |-> "US", subscriberCount |-> <<9999>>, viewCount |-> <<99999999>>,
            videoCount |-> <<99>>, uploads |-> None]
      [] cid = "ke_vlog" ->
           [id |-> cid, title |-> <<"kenya", "vlog">>, description |-> <<>>,
            country |-> "KE", subscriberCount |-> <<99999>>, viewCount |-> <<9999999>>,
            videoCount |-> <<99>>, uploads |-> None]
      [] cid = "small" ->
           [id |-> cid, title |-> <<"kenyan", "podcasts">>, description |-> <<>>,
            country |-> "KE", subscriberCount |-> <<>>, viewCount |-> <<9999999>>,
            videoCount |-> <<9>>, uploads |-> None]

\* The upload feed behind a playlist id, and what videos().list answers.
Feed(pid) ==
    CASE pid = "UUke_pod" -> <<"v2", "v1", "v3">>
      [] pid = "UUderby" -> <<"w1">>

\* publishedAt of kind "date" holds the day of publication counted from today
\* (0 today, -3 three days ago): ISO timestamps of one format compare as their
\* days do; kind "empty" is a missing timestamp and kind "bad" a string that is
\* no ISO timestamp.  A duration of kind "PT" is the string "PT#H#M#S"; kind
\* "empty" is a missing one and kind "bad" a string the pattern rejects.
VideoItem(vid) ==
    CASE vid = "v1" ->
           [id |-> vid, title |-> <<"episode">>, description |-> <<>>, tags |-> <<>>,
            publishedAt |-> [kind |-> "date", day |-> -3],
            duration |-> [kind |-> "PT", h |-> 0, m |-> 45, s |-> 0], viewCount |-> <<50000>>]
      [] vid = "v2" ->
           [id |-> vid, title |-> <<"clip", "#shorts">>, description |-> <<>>,
            tags |-> <<"shorts">>,
            publishedAt |-> [kind |-> "date", day |-> -45],
            duration |-> [kind |-> "PT", h |-> 0, m |-> 0, s |-> 30], viewCount |-> <<90000>>]
      [] vid = "v3" ->
           [id |-> vid, title |-> <<"episode">>, description |-> <<>>, tags |-> <<>>,
            publishedAt |-> [kind |-> "date", day |-> -200],
            duration |-> [kind |-> "PT", h |-> 1, m |-> 10, s |-> 0], viewCount |-> <<20000>>]
      [] vid = "w1" ->
           [id |-> vid, title |-> <<"matchday", "review">>, description |-> <<>>, tags |-> <<>>,
            publishedAt |-> [kind |-> "date", day |-> -45],
            duration |-> [kind |-> "PT", h |-> 0, m |-> 20, s |-> 5], viewCount |-> <<12000>>]

\* ---------------------------------------------------------------- discovery
\* The for loop over one page's items: an id not seen yet is appended, and the
\* loop breaks once the list holds max_new ids.
RECURSIVE AddItems(_, _, _)
AddItems(acc, items, cap) ==
    IF items = <<>> THEN acc
    ELSE LET cid == Head(items)
         IN  IF cid # "" /\ cid \notin Range(acc)
             THEN LET acc2 == Append(acc, cid)
                  IN  IF Len(acc2) >= cap THEN acc2
                      ELSE AddItems(acc2, Tail(items), cap)
             ELSE AddItems(acc, Tail(items), cap)

\* Whether the while loop of one query ends after a page.
PageLoopEnds(next, got, acc, cap) ==
    \/ ~next
    \/ got >= MAX_DISCOVER_RESULTS_PER_QUERY
    \/ Len(acc) >= cap

\* dict.fromkeys(seq) as a list: first occurrences, in order.
RECURSIVE DictFromKeysAcc(_, _)
DictFromKeysAcc(acc, seq) ==
    IF seq = <<>> THEN acc
    ELSE DictFromKeysAcc(IF Head(seq) \in Range(acc) THEN acc ELSE Append(acc, Head(seq)),
                         Tail(seq))

\* A mutant of DictFromKeys: a repeated key moves to its last occurrence.
DictFromKeysLast(seq) ==
    LET keep(i) == \A j \in (i + 1)..Len(seq) : seq[j] # seq[i]
        F[i \in 0..Len(seq)] ==
            IF i = 0 THEN <<>>
            ELSE IF keep(i) THEN Append(F[i - 1], seq[i]) ELSE F[i - 1]
    IN  F[Len(seq)]

DictFromKeys(seq) == DictFromKeysAcc(<<>>, seq)

\* ------------------------------------------------------- channels and videos
\* chunked(seq, n): the chunk that starts after position pos.
Chunk(seq, pos, n) == SubSeq(seq, pos + 1, Min2(pos + n, Len(seq)))

\* The items channels().list answers for a batch of ids.
ChannelsResponse(batch) ==
    LET known == SelectSeq(batch, LAMBDA c : c \in ChannelIds)
    IN  [i \in 1..Len(known) |-> ChannelItem(known[i])]

VideosResponse(batch) == [i \in 1..Len(batch) |-> VideoItem(batch[i])]

\* Whether build_channel_core keeps a channel item.
CoreKept(ch, allow_ids, block_ids) ==
    /\ ch.id # ""
    /\ ch.id \notin block_ids
    /\ is_kenyan(ch, allow_ids, ch.id)
    /\ ~(to_int(ch.subscriberCount) < MIN_SUBSCRIBERS
         \/ to_int(ch.viewCount) < MIN_CHANNEL_VIEWS)
    /\ ~(classify_channel(ch.title, ch.description) = "other" /\ ch.id \notin allow_ids)

ChannelCore(ch) ==
    [channel_id |-> ch.id,
     channel_name |-> ch.title,
     subscribers |-> to_int(ch.subscriberCount),
     video_count |-> to_int(ch.videoCount),
     views_total |-> to_int(ch.viewCount),
     country |-> Upper(ch.country),
     classification |-> classify_channel(ch.title, ch.description),
     uploads_playlist_id |-> ch.uploads]

build_channel_core(items, allow_ids, block_ids) ==
    LET kept == SelectSeq(items, LAMBDA ch : CoreKept(ch, allow_ids, block_ids))
    IN  [i \in 1..Len(kept) |-> ChannelCore(kept[i])]

\* iso8601_duration_to_seconds: None (<<>>) for a missing or rejected string.
iso8601_duration_to_seconds(d) ==
    IF d.kind = "PT" THEN <<d.h * 3600 + d.m * 60 + d.s>> ELSE <<>>

\* The order of publishedAt strings: "" below every timestamp, a string of
\* letters above.
PubRank(p) == CASE p.kind = "empty" -> 0 [] p.kind = "date" -> 1 [] p.kind = "bad" -> 2
PubGt(a, b) ==
    \/ PubRank(a) > PubRank(b)
    \/ a.kind = "date" /\ b.kind = "date" /\ a.day > b.day

\* sorted(seq, key, reverse=True): descending and stable, an element going
\* behind the greater ones and behind the equal ones that came before it.
\* gt[i, j] tells whether the key of s[i] is greater than the key of s[j].
SortDesc(s, gt) ==
    LET n == Len(s)
        pos(i) == 1 + Cardinality({j \in 1..n : gt[j, i]})
                    + Cardinality({j \in 1..(i - 1) : ~gt[j, i] /\ ~gt[i, j]})
    IN  [p \in 1..n |-> s[CHOOSE i \in 1..n : pos(i) = p]]

\* Whether choose_latest_longform returns a video when it reaches it.
LongformOk(v) ==
    LET dur == iso8601_duration_to_seconds(v.duration)
        too_old == v.publishedAt.kind = "date" /\ v.publishedAt.day < -MAX_VIDEO_AGE_DAYS
    IN  /\ ~(dur # <<>> /\ dur[1] < MIN_LONGFORM_SEC)
        /\ ~looks_blocked(v.title, v.description, v.tags)
        /\ ~too_old
        /\ ~(to_int(v.viewCount) < MIN_VIDEO_VIEWS)

\* choose_latest_longform: <<the video>>, or <<>> for None.
choose_latest_longform(videos) ==
    LET sorted_vs == SortDesc(videos, [i \in 1..Len(videos), j \in 1..Len(videos) |->
                                PubGt(videos[i].publishedAt, videos[j].publishedAt)])
        ok == SelectSeq(sorted_vs, LongformOk)
    IN  IF ok = <<>> THEN <<>> ELSE <<Head(ok)>>

\* The per-channel signals enrich_signals derives from the fetched videos.
UploadsLast90d(videos) ==
    Cardinality({i \in 1..Len(videos) :
        videos[i].publishedAt.kind = "date" /\ videos[i].publishedAt.day >= -90})

RECURSIVE LastIsoAcc(_, _)
LastIsoAcc(last, videos) ==
    IF videos = <<>> THEN last
    ELSE LET p == Head(videos).publishedAt
         IN  LastIsoAcc(IF p.kind = "date" /\ (last = <<>> \/ p.day > last[1])
                        THEN <<p.day>> ELSE last,
                        Tail(videos))

ChannelWithSignals(c, videos) ==
    LET last == LastIsoAcc(<<>>, videos)
        chosen == choose_latest_longform(videos)
    IN  [channel_id |-> c.channel_id,
         channel_name |-> c.channel_name,
         subscribers |-> c.subscribers,
         video_count |-> c.video_count,
         views_total |-> c.views_total,
         country |-> c.country,
         classification |-> c.classification,
         uploads_playlist_id |-> c.uploads_playlist_id,
         uploads_last_90d |-> UploadsLast90d(videos),
         last_upload_days |-> IF last = <<>> THEN <<>> ELSE <<-last[1]>>,
         latest_kept_video_id |-> IF chosen = <<>> THEN "" ELSE chosen[1].id,
         score |-> RInt(0)]

\* ------------------------------------------------------------ rank and write
\* enriched.sort(key=score, reverse=True)
SortByScore(rows) ==
    SortDesc(rows, [i \in 1..Len(rows), j \in 1..Len(rows) |-> RLt(rows[j].score, rows[i].score)])

\* enriched[:500]
Top(rows) == SubSeq(rows, 1, Min2(Len(rows), TOP_N))

\* A mutant of CsvRows: ranks counted from 0.
CsvRowsFromZero(rows) ==
    [i \in 1..Len(rows) |->
        [rank |-> i - 1, channel_id |-> rows[i].channel_id,
         subscribers |-> rows[i].subscribers, video_count |-> rows[i].video_count,
         views_total |-> rows[i].views_total,
         latest_video_id |-> rows[i].latest_kept_video_id, score |-> rows[i].score]]

\* The data rows write_csv writes for a list of rows.
CsvRows(rows) ==
    [i \in 1..Len(rows) |->
        [rank |-> i, channel_id |-> rows[i].channel_id,
         subscribers |-> rows[i].subscribers, video_count |-> rows[i].video_count,
         views_total |-> rows[i].views_total,
         latest_video_id |-> rows[i].latest_kept_video_id, score |-> rows[i].score]]

\* ====================================================== build_ke_top500.py
VARIABLES pc, seed_ids, block_ids, discover, max_new,
          ids, q, tok, fetched,
          candidate_ids, ch_pos, ch_items, cores,
          e_i, pl_out, vids, v_pos, enriched,
          out_file, wrote, exit_code, error

\* The state of rollup_top500.py and of a scoring run on a free candidate set.
VARIABLES r_pc, history, out_7d, out_30d,
          s_pc, s_rows, s_idx, s_old, s_before, s_after

rvars == <<r_pc, history, out_7d, out_30d>>
svars == <<s_pc, s_rows, s_idx, s_old, s_before, s_after>>

pvars == <<pc, seed_ids, block_ids, discover, max_new, ids, q, tok, fetched,
           candidate_ids, ch_pos, ch_items, cores, e_i, pl_out, vids, v_pos,
           enriched, out_file, wrote, exit_code, error>>

SeqsUpTo(S, n) == UNION {[1..k -> S] : k \in 0..n}

\* The ids the seed file, the blocklist and the search results draw from.
SeedPool == {"ke_pod", "us_pod", "ke_vlog"}
BlockPool == {"ke_pod"}
SearchPool == {"ke_pod", "derby", "us_pod", "ke_vlog", "small"}

\* The snapshot a previous run left at the output path.
PrevSnapshot ==
    <<[rank |-> 1, channel_id |-> "previous", subscribers |-> 0, video_count |-> 0,
       views_total |-> 0, latest_video_id |-> "", score |-> RInt(0)]>>

\* main reads the seed file and the blocklist before discovery, which uses
\* neither; the model draws their contents where main first uses them, in Merge.
PInit ==
    /\ seed_ids = <<>>
    /\ block_ids = {}
    /\ discover \in BOOLEAN
    /\ max_new \in (IF discover THEN 0..MaxNew ELSE {0})
    /\ pc = IF discover THEN "discover" ELSE "merge"
    /\ ids = <<>> /\ q = 1 /\ tok = FALSE /\ fetched = 0
    /\ candidate_ids = <<>> /\ ch_pos = 0 /\ ch_items = <<>> /\ cores = <<>>
    /\ e_i = 1 /\ pl_out = <<>> /\ vids = <<>> /\ v_pos = 0 /\ enriched = <<>>
    /\ out_file = PrevSnapshot /\ wrote = FALSE /\ exit_code = 0 /\ error = "none"

\* An exception of an API call leaves main and reaches the handler of
\* __main__, which exits with the message: nothing is written.
Raise(kind) ==
    /\ pc' = "done"
    /\ exit_code' = 1
    /\ error' = kind
    /\ UNCHANGED <<seed_ids, block_ids, discover, max_new, ids, q, tok, fetched,
                   candidate_ids, ch_pos, ch_items, cores, e_i, pl_out, vids, v_pos,
                   enriched, out_file, wrote>>

\* One search().list call of discover_channel_ids that answers a page, and the
\* rest of the loop body.
SearchPage ==
    /\ pc = "discover"
    /\ \E items \in SeqsUpTo(SearchPool \cup {""}, MaxPageItems), next \in BOOLEAN :
         LET acc == AddItems(ids, items, max_new)
             got == fetched + Len(items)
             ends == PageLoopEnds(next, got, acc, max_new)
             last == Len(acc) >= max_new \/ q = NUM_DISCOVERY_QUERIES
         IN  /\ ids' = acc
             /\ tok' = IF ends THEN FALSE ELSE next
             /\ fetched' = IF ends THEN 0 ELSE got
             /\ q' = IF ends /\ ~last THEN q + 1 ELSE q
             /\ pc' = IF ends /\ last THEN "merge" ELSE "discover"
    /\ UNCHANGED <<seed_ids, block_ids, discover, max_new, candidate_ids, ch_pos,
                   ch_items, cores, e_i, pl_out, vids, v_pos, enriched, out_file,
                   wrote, exit_code, error>>

\* A search().list call that raises (quota, authorization).
SearchFail == pc = "discover" /\ Raise("search")

\* load_lines of the two files, and candidate_ids = list(dict.fromkeys(...)).
Merge ==
    /\ pc = "merge"
    /\ \E seeds \in SeqsUpTo(SeedPool, MaxSeeds), blocked \in SUBSET BlockPool :
         /\ seed_ids' = seeds
         /\ block_ids' = blocked
         /\ candidate_ids' = IF discover THEN DictFromKeys(seeds \o ids)
                             ELSE DictFromKeys(seeds)
    /\ pc' = "channels"
    /\ UNCHANGED <<discover, max_new, ids, q, tok, fetched,
                   ch_pos, ch_items, cores, e_i, pl_out, vids, v_pos, enriched,
                   out_file, wrote, exit_code, error>>

\* One channels().list call of list_channels.
ListChannelsBatch ==
    /\ pc = "channels"
    /\ ch_pos < Len(candidate_ids)
    /\ ch_items' = ch_items \o ChannelsResponse(Chunk(candidate_ids, ch_pos, MAX_CHANNEL_BATCH))
    /\ ch_pos' = ch_pos + MAX_CHANNEL_BATCH
    /\ UNCHANGED <<pc, seed_ids, block_ids, discover, max_new, ids, q, tok, fetched,
                   candidate_ids, cores, e_i, pl_out, vids, v_pos, enriched,
                   out_file, wrote, exit_code, error>>

ListChannelsFail == pc = "channels" /\ ch_pos < Len(candidate_ids) /\ Raise("channels")

\* Where enrich_signals stands when it reaches core i.
EnterCore(cs, i) ==
    IF i > Len(cs) THEN "score"
    ELSE IF cs[i].uploads_playlist_id = None THEN "signals"
    ELSE "playlist"

\* The rest of build_channel_core once every batch is fetched; main writes an
\* empty snapshot and returns when no core is left.
BuildCores ==
    /\ pc = "channels"
    /\ ch_pos >= Len(candidate_ids)
    /\ LET cs == build_channel_core(ch_items, Range(seed_ids), block_ids)
       IN  /\ cores' = cs
           /\ IF cs = <<>>
              THEN /\ out_file' = CsvRows(<<>>)
                   /\ wrote' = TRUE
                   /\ pc' = "done"
              ELSE /\ pc' = EnterCore(cs, 1)
                   /\ UNCHANGED <<out_file, wrote>>
    /\ UNCHANGED <<seed_ids, block_ids, discover, max_new, ids, q, tok, fetched,
                   candidate_ids, ch_pos, ch_items, e_i, pl_out, vids, v_pos,
                   enriched, exit_code, error>>

\* The page playlistItems().list answers after `offset` items, and whether it
\* carries a nextPageToken.
PlaylistItems(pid, offset, maxResults) ==
    SubSeq(Feed(pid), offset + 1, Min2(offset + maxResults, Len(Feed(pid))))
PlaylistHasNext(pid, offset, maxResults) == offset + maxResults < Len(Feed(pid))

\* One playlistItems().list call of list_playlist_video_ids and the rest of
\* the loop body.
PlaylistPage ==
    /\ pc = "playlist"
    /\ LET pid == cores[e_i].uploads_playlist_id
           maxResults == Min2(PLAYLIST_PAGE_SIZE, UPLOADS_FETCH_CAP - Len(pl_out))
           out == pl_out \o PlaylistItems(pid, Len(pl_out), maxResults)
           next == PlaylistHasNext(pid, Len(pl_out), maxResults)
       IN  /\ pl_out' = out
           /\ pc' = IF next /\ Len(out) < UPLOADS_FETCH_CAP THEN "playlist"
                    ELSE IF out = <<>> THEN "signals"
                    ELSE "videos"
    /\ UNCHANGED <<seed_ids, block_ids, discover, max_new, ids, q, tok, fetched,
                   candidate_ids, ch_pos, ch_items, cores, e_i, vids, v_pos,
                   enriched, out_file, wrote, exit_code, error>>

PlaylistFail == pc = "playlist" /\ Raise("playlist")

\* One videos().list call of list_videos.
ListVideosBatch ==
    /\ pc = "videos"
    /\ vids' = vids \o VideosResponse(Chunk(pl_out, v_pos, MAX_VIDEO_BATCH))
    /\ v_pos' = v_pos + MAX_VIDEO_BATCH
    /\ pc' = IF v_pos + MAX_VIDEO_BATCH >= Len(pl_out) THEN "signals" ELSE "videos"
    /\ UNCHANGED <<seed_ids, block_ids, discover, max_new, ids, q, tok, fetched,
                   candidate_ids, ch_pos, ch_items, cores, e_i, pl_out,
                   enriched, out_file, wrote, exit_code, error>>

ListVideosFail == pc = "videos" /\ Raise("videos")

\* The end of one iteration of enrich_signals: the row is appended.
EnrichRow ==
    /\ pc = "signals"
    /\ enriched' = Append(enriched, ChannelWithSignals(cores[e_i], vids))
    /\ e_i' = e_i + 1
    /\ pl_out' = <<>> /\ vids' = <<>> /\ v_pos' = 0
    /\ pc' = EnterCore(cores, e_i + 1)
    /\ UNCHANGED <<seed_ids, block_ids, discover, max_new, ids, q, tok, fetched,
                   candidate_ids, ch_pos, ch_items, cores,
                   out_file, wrote, exit_code, error>>

\* The end of main: compute_scores, the sort, the cut and write_csv.
ScoreAndWrite ==
    /\ pc = "score"
    /\ out_file' = IF enriched = <<>> THEN CsvRows(<<>>)
                   ELSE CsvRows(Top(SortByScore(compute_scores(enriched))))
    /\ wrote' = TRUE
    /\ pc' = "done"
    /\ UNCHANGED <<seed_ids, block_ids, discover, max_new, ids, q, tok, fetched,
                   candidate_ids, ch_pos, ch_items, cores, e_i, pl_out, vids, v_pos,
                   enriched, exit_code, error>>

\* ------------------------------------------------- properties of the run
\* The list the merge step reads: the seeds, then the discovered ids.
MergeSource == seed_ids \o (IF discover THEN ids ELSE <<>>)
Merged == pc \notin {"discover", "merge"} /\ error # "search"
FirstIdx(seq, x) == CHOOSE i \in 1..Len(seq) : seq[i] = x /\ \A j \in 1..(i - 1) : seq[j] # x

\* C1: when a search call fails after at least one id was accumulated, the run
\* does not end in an error: discovery returns the accumulated ids and the
\* later stages work with them.
C1_SearchFailureKeepsIds ==
    (error = "search" /\ ids # <<>>) =>
        /\ exit_code = 0
        /\ pc # "discover" => Range(ids) \subseteq Range(candidate_ids)

\* C2: when the fetch of one batch of channel ids or of video ids fails, among
\* several, only that batch is dropped: the run goes on, every batch is still
\* requested and a snapshot is written.
C2_BatchFailureSkipsBatch ==
    (\/ error = "channels" /\ Len(candidate_ids) > MAX_CHANNEL_BATCH
     \/ error = "videos" /\ Len(pl_out) > MAX_VIDEO_BATCH) =>
        /\ exit_code = 0
        /\ pc = "done" => (wrote /\ ch_pos >= Len(candidate_ids))

\* C3: whatever minimum row count m is configured, a run whose survivor count
\* is non-zero but below m leaves the snapshot at the output path as it was and
\* ends with a failure signal.
C3_UnderYieldKeepsLastGood ==
    \A m \in 1..TOP_N :
        (pc = "done" /\ error = "none" /\ 0 < Len(enriched) /\ Len(enriched) < m) =>
            (out_file = PrevSnapshot /\ exit_code # 0)

\* The tie-break order of two rows: more subscribers first, then more views,
\* then more videos, then the earlier candidate.
TieOrdered(a, b) ==
    \/ a.subscribers > b.subscribers
    \/ a.subscribers = b.subscribers /\ a.views_total > b.views_total
    \/ a.subscribers = b.subscribers /\ a.views_total = b.views_total
       /\ a.video_count > b.video_count
    \/ a.subscribers = b.subscribers /\ a.views_total = b.views_total
       /\ a.video_count = b.video_count
       /\ FirstIdx(candidate_ids, a.channel_id) < FirstIdx(candidate_ids, b.channel_id)

\* C4: in the written snapshot two rows of equal score stand in the tie-break
\* order: subscribers, then total views, then video count, all descending, then
\* insertion order.
C4_TieBreakOrder ==
    wrote =>
        \A i, j \in 1..Len(out_file) :
            (i < j /\ out_file[i].score = out_file[j].score) =>
                TieOrdered(out_file[i], out_file[j])

\* C5: no channel whose name and description match the sports, sensational,
\* short-form or promotional-mix patterns is in the written snapshot.
C5_NoHeuristicMatchInOutput ==
    wrote =>
        \A i \in 1..Len(out_file) :
            LET ch == ChannelItem(out_file[i].channel_id)
            IN  ~looks_blocked(ch.title, ch.description, <<>>)

\* C6: the ranks of the written snapshot are exactly 1..K in row order, with
\* K the smaller of the survivor count and the output cap, and the rows stand in
\* descending score order.
C6_DenseRanks ==
    wrote =>
        /\ Len(out_file) = Min2(Len(cores), TOP_N)
        /\ Len(out_file) <= TOP_N
        /\ {out_file[i].rank : i \in 1..Len(out_file)} = 1..Min2(Len(cores), TOP_N)
        /\ \A i \in 1..Len(out_file) : out_file[i].rank = i
        /\ \A i, j \in 1..Len(out_file) :
               i < j => RLe(out_file[j].score, out_file[i].score)

\* A run that wrote a snapshot with more survivors than the cap, of unequal scores.
C6_Witness ==
    /\ wrote
    /\ Len(cores) > TOP_N
    /\ \E i, j \in 1..Len(out_file) : RLt(out_file[j].score, out_file[i].score)

\* C7: the merged candidate list holds each distinct id of the seeds and the
\* discovered ids exactly once, in the order of first occurrence in
\* seeds-then-discovered.
C7_MergeKeepsFirstOccurrence ==
    Merged =>
        /\ Range(candidate_ids) = Range(MergeSource)
        /\ \A x \in Range(MergeSource) :
               Cardinality({i \in 1..Len(candidate_ids) : candidate_ids[i] = x}) = 1
        /\ \A i, j \in 1..Len(candidate_ids) :
               i < j => FirstIdx(MergeSource, candidate_ids[i])
                           < FirstIdx(MergeSource, candidate_ids[j])

\* A merge of a seed list with a repeat and an id that discovery found too.
C7_Witness ==
    /\ Merged /\ discover
    /\ \E i, j \in 1..Len(seed_ids) : i < j /\ seed_ids[i] = seed_ids[j]
    /\ Range(seed_ids) \cap Range(ids) # {}
    /\ \E x \in Range(ids) : x \notin Range(seed_ids)

\* ========================================================= rollup_top500.py
\* The history directory is a function from file names to file contents.  A
\* name is a date (its age in days) or no date at all; NameOrder lists the
\* names as sorted(glob(...)) does, older dates first and letters after digits.
NameOrder == <<"d30", "d7", "d6", "notes">>

\* date.fromisoformat of a file's base name, as its age in days: <<>> when the
\* name is no date.
FileAge(name) ==
    CASE name = "d6" -> <<6>> [] name = "d7" -> <<7>> [] name = "d30" -> <<30>>
      [] OTHER -> <<>>

\* The items a snapshot may list.  latest_video_published_at is 0 for the empty
\* string and else the rank of the timestamp in string order; a rank of <<>>
\* is a value that is no int.
ItemPool ==
    {[channel_id |-> "a", rank |-> <<1>>, latest_video_id |-> "x",
      latest_video_published_at |-> 2],
     [channel_id |-> "a", rank |-> <<2>>, latest_video_id |-> "y",
      latest_video_published_at |-> 2],
     [channel_id |-> "b", rank |-> <<1>>, latest_video_id |-> "z",
      latest_video_published_at |-> 1]}

\* A file that load_json cannot read, or that holds no dict with an items list.
Corrupt == [ok |-> FALSE, items |-> <<>>]
FilePool == {Corrupt} \cup {[ok |-> TRUE, items |-> it] : it \in SeqsUpTo(ItemPool, MaxItems)}

list_history_files(h) == SelectSeq(NameOrder, LAMBDA n : n \in DOMAIN h)

filter_last_n_days(files, n) ==
    SelectSeq(files, LAMBDA f : FileAge(f) # <<>> /\ FileAge(f)[1] >= 0 /\ FileAge(f)[1] <= n - 1)

\* The loaded snapshots of a file list, in order.
LoadSnapshots(h, files) ==
    LET good == SelectSeq(files, LAMBDA f : h[f].ok)
    IN  [i \in 1..Len(good) |-> h[good[i]].items]

RECURSIVE Concat(_)
Concat(ss) == IF ss = <<>> THEN <<>> ELSE Head(ss) \o Concat(Tail(ss))

SlotIndex(slots, cid) == CHOOSE i \in 1..Len(slots) : slots[i].channel_id = cid

\* One pass of the inner loop of build_rollup over an item.
AddToSlots(slots, it) ==
    IF it.channel_id = "" \/ it.rank = <<>> THEN slots
    ELSE LET have == \E i \in 1..Len(slots) : slots[i].channel_id = it.channel_id
             base == IF have THEN slots
                     ELSE Append(slots,
                            [channel_id |-> it.channel_id,
                             latest_video_id |-> it.latest_video_id,
                             latest_video_published_at |-> it.latest_video_published_at,
                             ranks |-> <<>>])
             k == SlotIndex(base, it.channel_id)
             slot == [base[k] EXCEPT !.ranks = Append(@, it.rank[1])]
             newer == it.latest_video_published_at > slot.latest_video_published_at
         IN  [base EXCEPT ![k] =
                IF newer
                THEN [slot EXCEPT !.latest_video_id = it.latest_video_id,
                                  !.latest_video_published_at = it.latest_video_published_at]
                ELSE slot]

RECURSIVE ByChannel(_, _)
ByChannel(slots, items) ==
    IF items = <<>> THEN slots
    ELSE ByChannel(AddToSlots(slots, Head(items)), Tail(items))

RECURSIVE SumSeq(_), MinSeq(_)
SumSeq(s) == IF s = <<>> THEN 0 ELSE Head(s) + SumSeq(Tail(s))
MinSeq(s) == IF Len(s) = 1 THEN s[1] ELSE Min2(Head(s), MinSeq(Tail(s)))

\* The entry of one channel: avg_rank, best_rank, appearances, presence and
\* score = W_AVG / avg_rank + W_BEST / best_rank + W_PRESENCE * presence.
RollupEntry(slot, N) ==
    LET avg_rank == Rat(SumSeq(slot.ranks), Len(slot.ranks))
        best_rank == MinSeq(slot.ranks)
        presence == Rat(Len(slot.ranks), N)
    IN  [channel_id |-> slot.channel_id,
         latest_video_id |-> slot.latest_video_id,
         latest_video_published_at |-> slot.latest_video_published_at,
         avg_rank |-> avg_rank,
         best_rank |-> best_rank,
         appearances |-> Len(slot.ranks),
         presence |-> presence,
         score |-> RAdd(RAdd(RDiv(RInt(1), avg_rank),
                             RMul(Rat(12, 10), Rat(1, best_rank))),
                        RMul(Rat(8, 10), presence)),
         rank |-> 0]

\* items.sort(key=lambda x: (-x["score"], x["best_rank"]))
RollupBefore(a, b) ==
    \/ RLt(b.score, a.score)
    \/ a.score = b.score /\ a.best_rank < b.best_rank

\* build_rollup: the items of the result.
build_rollup(h, files) ==
    LET snapshots == LoadSnapshots(h, files)
    IN  IF snapshots = <<>> THEN <<>>
        ELSE LET slots == ByChannel(<<>>, Concat(snapshots))
                 entries == [i \in 1..Len(slots) |-> RollupEntry(slots[i], Len(snapshots))]
                 n == Len(entries)
                 top == Top(SortDesc(entries, [i \in 1..n, j \in 1..n |->
                                                RollupBefore(entries[i], entries[j])]))
             IN  [i \in 1..Len(top) |-> [top[i] EXCEPT !.rank = i]]

\* f"{days}d"
RangeTag(days) == IF days = 7 THEN "7d" ELSE "30d"

\* A mutant of WindowResult: the range is set only on a result with items.
WindowResultTagIfItems(h, files, days) ==
    LET items == build_rollup(h, filter_last_n_days(files, days))
    IN  [written |-> TRUE, range |-> IF items = <<>> THEN "" ELSE RangeTag(days),
         items |-> items]

\* What main writes for one window.
WindowResult(h, files, days) ==
    [written |-> TRUE, range |-> RangeTag(days),
     items |-> build_rollup(h, filter_last_n_days(files, days))]

\* An output path no run has written.
Absent == [written |-> FALSE, range |-> "", items |-> <<>>]

RInit ==
    /\ history \in UNION {[S -> FilePool] :
                            S \in {T \in SUBSET Range(NameOrder) : Cardinality(T) <= MaxFiles}}
    /\ r_pc = "start"
    /\ out_7d = Absent
    /\ out_30d = Absent

\* main with an empty file list: a message, and nothing is written.
RollupNoHistory ==
    /\ r_pc = "start"
    /\ list_history_files(history) = <<>>
    /\ r_pc' = "done"
    /\ UNCHANGED <<history, out_7d, out_30d>>

\* The first pass of main's loop over WINDOWS: the 7-day rollup.
RollupWindow7 ==
    /\ r_pc = "start"
    /\ list_history_files(history) # <<>>
    /\ out_7d' = WindowResult(history, list_history_files(history), 7)
    /\ r_pc' = "window30"
    /\ UNCHANGED <<history, out_30d>>

\* The second pass: the 30-day rollup.
RollupWindow30 ==
    /\ r_pc = "window30"
    /\ out_30d' = WindowResult(history, list_history_files(history), 30)
    /\ r_pc' = "done"
    /\ UNCHANGED <<history, out_7d>>

\* ===================================================== scoring, on its own
\* compute_scores on a free candidate set, before and after one entity's
\* subscriber count is raised.
SubsPool == {9999, 99999, 999999, 9999999}
ViewsPool == {9999999, 99999999}

ScoreRow(subs, views) ==
    [channel_id |-> "", channel_name |-> <<>>, subscribers |-> subs, video_count |-> 99,
     views_total |-> views, country |-> "KE", classification |-> "podcast",
     uploads_playlist_id |-> None, uploads_last_90d |-> 0, last_upload_days |-> <<>>,
     latest_kept_video_id |-> "", score |-> RInt(0)]

\* What one call of compute_scores leaves: the scored rows, and its nh_subs.
Scored(rows) == [rows |-> compute_scores(rows), nh_subs |-> NormSubs(rows)]

SInit ==
    /\ s_rows \in UNION {[1..n -> {ScoreRow(a, b) : a \in SubsPool, b \in ViewsPool}] :
                           n \in 1..MaxRows}
    /\ s_pc = "start"
    /\ s_idx = 0 /\ s_old = 0
    /\ s_before = Scored(<<>>) /\ s_after = Scored(<<>>)

ScoreBefore ==
    /\ s_pc = "start"
    /\ s_before' = Scored(s_rows)
    /\ s_pc' = "scored"
    /\ UNCHANGED <<s_rows, s_idx, s_old, s_after>>

\* One entity's subscriber count goes up; nothing else changes.
RaiseSubs ==
    /\ s_pc = "scored"
    /\ \E i \in 1..Len(s_rows), more \in SubsPool :
         /\ more > s_rows[i].subscribers
         /\ s_idx' = i
         /\ s_old' = s_rows[i].subscribers
         /\ s_rows' = [s_rows EXCEPT ![i].subscribers = more]
    /\ s_pc' = "raised"
    /\ UNCHANGED <<s_before, s_after>>

ScoreAfter ==
    /\ s_pc = "raised"
    /\ s_after' = Scored(s_rows)
    /\ s_pc' = "rescored"
    /\ UNCHANGED <<s_rows, s_idx, s_old, s_before>>

\* ============================================ choose_latest_longform, on its own
\* choose_latest_longform on a free list of video items.  A duration of kind
\* "bad" is a string such as "P0D" or "P1DT2H", which the pattern of
\* iso8601_duration_to_seconds rejects.
DurationPool ==
    {[kind |-> "PT", h |-> 0, m |-> 45, s |-> 0],
     [kind |-> "PT", h |-> 0, m |-> 0, s |-> 30],
     [kind |-> "bad", h |-> 0, m |-> 0, s |-> 0]}
PublishedPool ==
    {[kind |-> "date", day |-> -3], [kind |-> "date", day |-> -45],
     [kind |-> "date", day |-> -400], [kind |-> "bad", day |-> 0],
     [kind |-> "empty", day |-> 0]}
VideoViewsPool == {<<50000>>, <<500>>}
VideoTitlePool == {<<"episode">>, <<"clip", "#shorts">>}

VideoPool ==
    {[id |-> "v", title |-> t, description |-> <<>>, tags |-> <<>>,
      publishedAt |-> p, duration |-> d, viewCount |-> n] :
        t \in VideoTitlePool, p \in PublishedPool, d \in DurationPool, n \in VideoViewsPool}

VARIABLES c_pc, c_videos, c_chosen
cvars == <<c_pc, c_videos, c_chosen>>

CInit ==
    /\ c_videos \in SeqsUpTo(VideoPool, MaxVideos)
    /\ c_pc = "start"
    /\ c_chosen = <<>>

\* latest = choose_latest_longform(vids), as enrich_signals calls it.
ChooseLatest ==
    /\ c_pc = "start"
    /\ c_chosen' = choose_latest_longform(c_videos)
    /\ c_pc' = "chosen"
    /\ UNCHANGED c_videos

\* ================================================ the paging loops, on their own
\* The while loops of discover_channel_ids and list_playlist_video_ids under
\* any sequence of successful page responses: a page holds any items the page
\* size allows ("" is an item with no usable id) and carries a nextPageToken or
\* not.  g_calls counts the fetch calls of the run of the loop.
PageIdPool == {"c1", "c2", ""}
PageVideoPool == {"p1", ""}

\* The fetch calls a loop makes when every page brings it nearer to an exit:
\* every search page holds an item, every playlist page a usable video id.
SearchCallsBound == NUM_DISCOVERY_QUERIES * MAX_DISCOVER_RESULTS_PER_QUERY
PlaylistCallsBound == UPLOADS_FETCH_CAP

VARIABLES g_pc, g_loop, g_max_new, g_ids, g_q, g_tok, g_fetched, g_out, g_calls
gvars == <<g_pc, g_loop, g_max_new, g_ids, g_q, g_tok, g_fetched, g_out, g_calls>>

GInit ==
    /\ g_loop \in {"search", "playlist"}
    /\ g_pc = g_loop
    /\ g_max_new \in (IF g_loop = "search" THEN 0..MaxNew ELSE {0})
    /\ g_ids = <<>> /\ g_q = 1 /\ g_tok = FALSE /\ g_fetched = 0
    /\ g_out = <<>> /\ g_calls = 0

\* One pass of the while loop of discover_channel_ids.
PagedSearch ==
    /\ g_pc = "search"
    /\ g_calls <= SearchCallsBound
    /\ \E items \in SeqsUpTo(PageIdPool, MaxPageItems), next \in BOOLEAN :
         LET acc == AddItems(g_ids, items, g_max_new)
             got == g_fetched + Len(items)
             ends == PageLoopEnds(next, got, acc, g_max_new)
             last == Len(acc) >= g_max_new \/ g_q = NUM_DISCOVERY_QUERIES
         IN  /\ g_ids' = acc
             /\ g_tok' = IF ends THEN FALSE ELSE next
             /\ g_fetched' = IF ends THEN 0 ELSE got
             /\ g_q' = IF ends /\ ~last THEN g_q + 1 ELSE g_q
             /\ g_pc' = IF ends /\ last THEN "done" ELSE "search"
    /\ g_calls' = g_calls + 1
    /\ UNCHANGED <<g_loop, g_max_new, g_out>>

\* One pass of the while loop of list_playlist_video_ids, cap = UPLOADS_FETCH_CAP.
PagedPlaylist ==
    /\ g_pc = "playlist"
    /\ Len(g_out) < UPLOADS_FETCH_CAP
    /\ g_calls <= PlaylistCallsBound
    /\ \E items \in SeqsUpTo(PageVideoPool,
                             Min2(PLAYLIST_PAGE_SIZE, UPLOADS_FETCH_CAP - Len(g_out))),
          next \in BOOLEAN :
         LET out == g_out \o SelectSeq(items, LAMBDA vid : vid # "")
         IN  /\ g_out' = out
             /\ g_tok' = next
             /\ g_pc' = IF next /\ Len(out) < UPLOADS_FETCH_CAP THEN "playlist" ELSE "done"
    /\ g_calls' = g_calls + 1
    /\ UNCHANGED <<g_loop, g_max_new, g_ids, g_q, g_fetched>>

\* ========================================================== specifications
vars == <<pvars, rvars, svars, cvars, gvars>>

PIdle ==
    /\ pc = "idle" /\ seed_ids = <<>> /\ block_ids = {} /\ discover = FALSE /\ max_new = 0
    /\ ids = <<>> /\ q = 1 /\ tok = FALSE /\ fetched = 0
    /\ candidate_ids = <<>> /\ ch_pos = 0 /\ ch_items = <<>> /\ cores = <<>>
    /\ e_i = 1 /\ pl_out = <<>> /\ vids = <<>> /\ v_pos = 0 /\ enriched = <<>>
    /\ out_file = PrevSnapshot /\ wrote = FALSE /\ exit_code = 0 /\ error = "none"

RIdle == r_pc = "idle" /\ history = <<>> /\ out_7d = Absent /\ out_30d = Absent

SIdle ==
    /\ s_pc = "idle" /\ s_rows = <<>> /\ s_idx = 0 /\ s_old = 0
    /\ s_before = Scored(<<>>) /\ s_after = Scored(<<>>)

CIdle == c_pc = "idle" /\ c_videos = <<>> /\ c_chosen = <<>>

GIdle ==
    /\ g_pc = "idle" /\ g_loop = "none" /\ g_max_new = 0 /\ g_ids = <<>> /\ g_q = 1
    /\ g_tok = FALSE /\ g_fetched = 0 /\ g_out = <<>> /\ g_calls = 0

\* A run of build_ke_top500.py.
Init == PInit /\ RIdle /\ SIdle /\ CIdle /\ GIdle
Next ==
    \/ SearchPage /\ UNCHANGED <<rvars, svars, cvars, gvars>>
    \/ SearchFail /\ UNCHANGED <<rvars, svars, cvars, gvars>>
    \/ Merge /\ UNCHANGED <<rvars, svars, cvars, gvars>>
    \/ ListChannelsBatch /\ UNCHANGED <<rvars, svars, cvars, gvars>>
    \/ ListChannelsFail /\ UNCHANGED <<rvars, svars, cvars, gvars>>
    \/ BuildCores /\ UNCHANGED <<rvars, svars, cvars, gvars>>
    \/ PlaylistPage /\ UNCHANGED <<rvars, svars, cvars, gvars>>
    \/ PlaylistFail /\ UNCHANGED <<rvars, svars, cvars, gvars>>
    \/ ListVideosBatch /\ UNCHANGED <<rvars, svars, cvars, gvars>>
    \/ ListVideosFail /\ UNCHANGED <<rvars, svars, cvars, gvars>>
    \/ EnrichRow /\ UNCHANGED <<rvars, svars, cvars, gvars>>
    \/ ScoreAndWrite /\ UNCHANGED <<rvars, svars, cvars, gvars>>
Spec == Init /\ [][Next]_vars

\* A run of rollup_top500.py.
InitRollup == RInit /\ PIdle /\ SIdle /\ CIdle /\ GIdle
NextRollup ==
    \/ RollupNoHistory /\ UNCHANGED <<pvars, svars, cvars, gvars>>
    \/ RollupWindow7 /\ UNCHANGED <<pvars, svars, cvars, gvars>>
    \/ RollupWindow30 /\ UNCHANGED <<pvars, svars, cvars, gvars>>
SpecRollup == InitRollup /\ [][NextRollup]_vars

\* compute_scores before and after a raise.
InitScore == SInit /\ PIdle /\ RIdle /\ CIdle /\ GIdle
NextScore ==
    \/ ScoreBefore /\ UNCHANGED <<pvars, rvars, cvars, gvars>>
    \/ RaiseSubs /\ UNCHANGED <<pvars, rvars, cvars, gvars>>
    \/ ScoreAfter /\ UNCHANGED <<pvars, rvars, cvars, gvars>>
SpecScore == InitScore /\ [][NextScore]_vars

\* choose_latest_longform on a free list of videos.
InitChoose == CInit /\ PIdle /\ RIdle /\ SIdle /\ GIdle
NextChoose ==
    \/ ChooseLatest /\ UNCHANGED <<pvars, rvars, svars, gvars>>
SpecChoose == InitChoose /\ [][NextChoose]_vars

\* The paging loops under any page responses.
InitPaging == GInit /\ PIdle /\ RIdle /\ SIdle /\ CIdle
NextPaging ==
    \/ PagedSearch /\ UNCHANGED <<pvars, rvars, svars, cvars>>
    \/ PagedPlaylist /\ UNCHANGED <<pvars, rvars, svars, cvars>>
SpecPaging == InitPaging /\ [][NextPaging]_vars

\* --------------------------------------------- properties of the rollup
\* The history files whose date falls in the last `days` days.
InWindow(days) ==
    {n \in DOMAIN history :
        FileAge(n) # <<>> /\ FileAge(n)[1] >= 0 /\ FileAge(n)[1] <= days - 1}

EntriesBounded(out, days) ==
    out.written =>
        \A i \in 1..Len(out.items) :
            /\ out.items[i].appearances <= Cardinality(InWindow(days))
            /\ RLe(RInt(0), out.items[i].presence)
            /\ RLe(out.items[i].presence, RInt(1))

\* C8: for every channel of a rollup, appearances is at most the number of
\* snapshot files dated in the window, and presence lies in [0, 1].
C8_AppearancesWithinWindow == EntriesBounded(out_7d, 7) /\ EntriesBounded(out_30d, 30)

EmptyResult(days) == [written |-> TRUE, range |-> RangeTag(days), items |-> <<>>]

OthersSubs == {s_rows[j].subscribers : j \in 1..Len(s_rows) \ {s_idx}}

\* The raise can move the entity's normalised value: the set holds another
\* entity, the raised count exceeds the smallest count among the others, and
\* the old count was below the largest count among the others or equal to
\* every other count.
RaiseMovesNorm ==
    /\ \E a \in OthersSubs : s_rows[s_idx].subscribers > a
    /\ \/ \E b \in OthersSubs : s_old < b
       \/ OthersSubs = {s_old}

NormGrew == RLt(s_before.nh_subs[s_idx], s_after.nh_subs[s_idx])
ScoreGrew == RLt(s_before.rows[s_idx].score, s_after.rows[s_idx].score)

\* C10, as claimed: raising one entity's subscriber count, all else fixed,
\* strictly increases its n_subs and its composite score, for every entity of
\* every candidate set.
C10_RaiseStrictlyIncreases == s_pc = "rescored" => (NormGrew /\ ScoreGrew)

\* C10, amended: raising one entity's subscriber count, all else fixed, never
\* decreases its n_subs and its composite score, and strictly increases both
\* exactly when the set holds another entity, the raised count exceeds the
\* smallest count among the others, and the old count was below the largest
\* count among the others or equal to every other count.
C10_RaiseNeverDecreases ==
    s_pc = "rescored" =>
        /\ RLe(s_before.nh_subs[s_idx], s_after.nh_subs[s_idx])
        /\ RLe(s_before.rows[s_idx].score, s_after.rows[s_idx].score)
        /\ NormGrew <=> RaiseMovesNorm
        /\ ScoreGrew <=> RaiseMovesNorm

\* A raise of an entity that stood between two others, and grew.
C10_Witness ==
    /\ s_pc = "rescored"
    /\ \E a \in OthersSubs : a < s_old
    /\ \E b \in OthersSubs : b > s_old
    /\ NormGrew /\ ScoreGrew

\* --------------------------------- properties of choose_latest_longform
\* The four gates of a long-form video: a parsed duration of at least
\* MIN_LONGFORM_SEC, a parsed publish date at most MAX_VIDEO_AGE_DAYS old, at
\* least MIN_VIDEO_VIEWS views, and no exclusion pattern or blocked tag.
PassesGates(v) ==
    /\ v.duration.kind = "PT"
    /\ v.duration.h * 3600 + v.duration.m * 60 + v.duration.s >= MIN_LONGFORM_SEC
    /\ v.publishedAt.kind = "date"
    /\ v.publishedAt.day >= -MAX_VIDEO_AGE_DAYS
    /\ v.viewCount # <<>> /\ v.viewCount[1] >= MIN_VIDEO_VIEWS
    /\ ~looks_blocked(v.title, v.description, v.tags)

\* C11: a video returned by choose_latest_longform passes the four gates, so
\* its duration and publish timestamp were parsed, and no video of the list
\* that passes the four gates was published after it.
C11_ChosenPassesGates ==
    (c_pc = "chosen" /\ c_chosen # <<>>) =>
        /\ PassesGates(c_chosen[1])
        /\ \A i \in 1..Len(c_videos) :
             PassesGates(c_videos[i]) => c_videos[i].publishedAt.day <= c_chosen[1].publishedAt.day

\* ------------------------------------- the latest video of a rollup entry
\* The orders in which a list of files can be processed.
Orders(files) ==
    {p \in [1..Len(files) -> Range(files)] : \A i, j \in 1..Len(files) : p[i] = p[j] => i = j}

\* The valid items of a channel in the snapshots of a file list.
ChannelItems(h, files, cid) ==
    LET all == Concat(LoadSnapshots(h, files))
    IN  {all[i] : i \in {k \in 1..Len(all) : all[k].channel_id = cid /\ all[k].rank # <<>>}}

\* The latest-video fields build_rollup holds for a channel after the files
\* are processed in the given order.
LatestOf(h, files, cid) ==
    LET slots == ByChannel(<<>>, Concat(LoadSnapshots(h, files)))
        slot == slots[SlotIndex(slots, cid)]
    IN  <<slot.latest_video_id, slot.latest_video_published_at>>

LatestByTimestamp(out, days) ==
    LET files == filter_last_n_days(list_history_files(history), days)
    IN  out.written =>
          \A i \in 1..Len(out.items) :
            LET e == out.items[i]
            IN  /\ \E it \in ChannelItems(history, files, e.channel_id) :
                     /\ it.latest_video_id = e.latest_video_id
                     /\ it.latest_video_published_at = e.latest_video_published_at
                /\ \A it \in ChannelItems(history, files, e.channel_id) :
                     it.latest_video_published_at <= e.latest_video_published_at
                /\ \A p \in Orders(files) :
                     LatestOf(history, p, e.channel_id)
                       = <<e.latest_video_id, e.latest_video_published_at>>

\* C12: the latest-video fields of every channel of a rollup are those of an
\* item of the channel with the greatest publish timestamp in the window, and
\* they are the same whatever the order in which the window's snapshots are
\* processed.
C12_LatestIsOrderIndependent ==
    LatestByTimestamp(out_7d, 7) /\ LatestByTimestamp(out_30d, 30)

\* ------------------------------------------------ the cap of discovery
\* C13: the list discover_channel_ids holds never has more than max_new ids,
\* for every max_new >= 0.
C13_DiscoveryWithinCap == Len(ids) <= max_new

\* ------------------------------------------------ the end of the paging loops
\* C14: under every sequence of successful page responses, pages with a
\* next-page token and no item or no usable id included, a paging loop makes
\* no more fetch calls than its exit conditions allow when every page makes
\* progress: queries times the per-query cap for discovery, the upload cap for
\* a playlist.
C14_PagingCallsBounded ==
    /\ g_loop = "search" => g_calls <= SearchCallsBound
    /\ g_loop = "playlist" => g_calls <= PlaylistCallsBound

====
